---- MODULE Spec2Model ----
(***************************************************************************)
(* The sysconfig tools export-config.py and import-config.py, run as       *)
(* processes against a sysconfig worker reached through the NEF client.    *)
(*                                                                         *)
(* The two scripts are translated statement by statement.  The NEF client  *)
(* library (nef.NEFClient, extlib/python) and the worker are not among the *)
(* source files; they are modelled from the specification (sections 3-5).  *)
(* The scripts are Python 2 on a POSIX system: a str is a byte string and  *)
(* text-mode file I/O transfers the bytes as they are.                     *)
(***************************************************************************)
EXTENDS Naturals, Sequences, FiniteSets

VARIABLES
    workerCfg,  \* the worker's configuration text
    fs,         \* the file system: path -> [exists, data]
    writable,   \* the paths that can be opened for writing
    tool,       \* the script the current process runs
    args,       \* sys.argv[1:]
    pc,         \* position of the process in its script
    cstate,     \* state of the process's NEF client
    config,     \* the script's variable config
    fbuf,       \* what f.write() has buffered in the open file object
    stdout,     \* what the process has written to standard output
    exitCode,   \* exit status, meaningful when pc = "exited"
    err,        \* the exception raised, "none" if none
    result,     \* how the method call ended, "none" before it has
    req,        \* requests in flight to the worker
    rep,        \* replies in flight to the client
    nSent,      \* requests the process has sent
    nRecv,      \* replies the process has consumed
    step,       \* round-trip session: runs completed
    T           \* round-trip session: the configuration it started from

world  == <<workerCfg, fs, writable>>
proc   == <<tool, args, pc, config, fbuf, stdout, exitCode, err>>
client == <<cstate, result, nSent, nRecv>>
net    == <<req, rep>>
driver == <<step, T>>
vars   == <<workerCfg, fs, writable, tool, args, pc, cstate, config, fbuf,
           stdout, exitCode, err, result, req, rep, nSent, nRecv, step, T>>

----------------------------------------------------------------------------
(* Bounds and value sets *)

MaxLen == 2

NL == "LF"
Chars == {"a", NL, "xE9"}   \* an ASCII letter, a line feed, a non-ASCII byte
Texts == UNION {[1..n -> Chars] : n \in 0..MaxLen}

Paths == {"out.cfg"}
ArgLists == {<<>>} \cup {<<p>> : p \in Paths} \cup {<<p, q>> : p \in Paths, q \in Paths}

Absent == [exists |-> FALSE, data |-> <<>>]
File(d) == [exists |-> TRUE, data |-> d]

ENDPOINT == "tcp://127.0.0.1:5557"
WORKER == "sysconfig"

----------------------------------------------------------------------------
(* The NEF client and the worker *)

\* len(sys.argv): the script name and the arguments
Argc == Len(args) + 1

\* worker(name).method(**named): one request message
MethodCall(w, m, named) == [worker |-> w, method |-> m, args |-> named]

\* The value of a named argument of a request
ArgValue(r, name) ==
    LET i == CHOOSE j \in 1..Len(r.args) : r.args[j][1] = name
    IN  r.args[i][2]

\* print(config): the text and a line feed
PrintLine(s) == s \o <<NL>>

\* f.read() of a file opened 'r': the whole content
ReadAll(d) == d

\* Any configuration on the worker, any file or none at the path, no
\* process started yet
InitState ==
    /\ workerCfg \in Texts
    /\ fs \in [Paths -> {Absent} \cup {File(d) : d \in Texts}]
    /\ writable \in SUBSET Paths
    /\ tool = "none" /\ args = <<>> /\ pc = "exited"
    /\ cstate = "Disconnected"
    /\ config = <<>> /\ fbuf = <<>> /\ stdout = <<>>
    /\ exitCode = 0 /\ err = "none" /\ result = "none"
    /\ req = <<>> /\ rep = <<>> /\ nSent = 0 /\ nRecv = 0
    /\ step = 0

Init ==
    /\ InitState
    /\ T = <<>>

\* A new process: fresh interpreter state, a client not yet constructed
Start(t, a) ==
    /\ tool' = t /\ args' = a /\ pc' = "start"
    /\ cstate' = "Disconnected"
    /\ config' = <<>> /\ fbuf' = <<>> /\ stdout' = <<>>
    /\ exitCode' = 0 /\ err' = "none" /\ result' = "none"
    /\ req' = <<>> /\ rep' = <<>> /\ nSent' = 0 /\ nRecv' = 0
    /\ UNCHANGED world

Launch ==
    /\ pc = "exited"
    /\ \E t \in {"export", "import"}, a \in ArgLists : Start(t, a)
    /\ UNCHANGED driver

----------------------------------------------------------------------------
(* Steps shared by the two scripts *)

\* raise: the exception is recorded and control leaves the script
Raise(e) == err' = e /\ pc' = "raised"

\* nef.NEFClient(endpoint): the client starts connecting to the endpoint
Connect(endpoint) ==
    /\ cstate' = "Connecting"
    /\ pc' = "connecting"

\* client.worker(w).m(**named): one request is sent and the caller blocks
Call(w, m, named) ==
    /\ cstate' = "Awaiting"
    /\ req' = Append(req, MethodCall(w, m, named))
    /\ nSent' = nSent + 1
    /\ pc' = "calling"

\* The blocked caller takes the reply at the head of rep
Receive ==
    /\ pc = "calling" /\ cstate = "Awaiting" /\ rep # <<>>
    /\ rep' = Tail(rep)
    /\ nRecv' = nRecv + 1
    /\ cstate' = "ConnectedIdle"

\* The process ends: the interpreter exits and its socket is released
Exit(code) ==
    /\ pc' = "exited"
    /\ exitCode' = code
    /\ cstate' = IF cstate = "Disconnected" THEN cstate ELSE "Closed"
    /\ req' = <<>> /\ rep' = <<>>

ConnectOk ==
    /\ pc = "connecting" /\ cstate = "Connecting"
    /\ cstate' = "ConnectedIdle"
    /\ pc' = "constructed"
    /\ UNCHANGED <<world, tool, args, config, fbuf, stdout, exitCode, err,
                   result, net, nSent, nRecv, driver>>

ConnectFail ==
    /\ pc = "connecting" /\ cstate = "Connecting"
    /\ cstate' = "Closed"
    /\ Raise("ConnectionError")
    /\ UNCHANGED <<world, tool, args, config, fbuf, stdout, exitCode,
                   result, net, nSent, nRecv, driver>>

\* The worker serves the request at the head of req.  A reply to a client
\* that no longer waits for one is dropped.
WorkerHandle ==
    /\ req # <<>>
    /\ LET r == Head(req)
           isImport == r.method = "importConfiguration"
           payload == IF isImport THEN <<>> ELSE workerCfg
       IN  /\ r.worker = WORKER
           /\ r.method \in {"exportConfiguration", "importConfiguration"}
           /\ workerCfg' = IF isImport THEN ArgValue(r, "configuration") ELSE workerCfg
           /\ rep' = IF cstate = "Awaiting"
                     THEN Append(rep, [status |-> "ok", payload |-> payload])
                     ELSE rep
    /\ req' = Tail(req)
    /\ UNCHANGED <<fs, writable, proc, client, driver>>

\* The request is answered with an application-level error (the worker or
\* the method is unknown, or the worker fails): nothing is applied.
WorkerError ==
    /\ req # <<>>
    /\ req' = Tail(req)
    /\ rep' = IF cstate = "Awaiting"
              THEN Append(rep, [status |-> "error", payload |-> <<>>])
              ELSE rep
    /\ UNCHANGED <<world, proc, client, driver>>

CallRemoteError ==
    /\ Receive
    /\ Head(rep).status = "error"
    /\ result' = "error"
    /\ Raise("RemoteError")
    /\ UNCHANGED <<world, tool, args, config, fbuf, stdout, exitCode, req,
                   nSent, driver>>

\* No reply has arrived within the bound
CallTimeout ==
    /\ pc = "calling" /\ cstate = "Awaiting" /\ rep = <<>>
    /\ cstate' = "ConnectedIdle"
    /\ result' = "timeout"
    /\ Raise("TimeoutError")
    /\ UNCHANGED <<world, tool, args, config, fbuf, stdout, exitCode, net,
                   nSent, nRecv, driver>>

\* The connection drops while the call is outstanding
TransportDrop ==
    /\ pc = "calling" /\ cstate = "Awaiting"
    /\ cstate' = "Closed"
    /\ result' = "transport"
    /\ rep' = <<>>
    /\ Raise("TransportError")
    /\ UNCHANGED <<world, tool, args, config, fbuf, stdout, exitCode, req,
                   nSent, nRecv, driver>>

----------------------------------------------------------------------------
(* export-config.py *)

\* client = nef.NEFClient('tcp://127.0.0.1:5557')
ExportConstruct ==
    /\ tool = "export" /\ pc = "start"
    /\ Connect(ENDPOINT)
    /\ UNCHANGED <<world, tool, args, config, fbuf, stdout, exitCode, err,
                   result, net, nSent, nRecv, driver>>

\* ExportCall issued without waiting for the constructor to return
ExportCallEarly ==
    /\ tool = "export" /\ pc \in {"connecting", "constructed"}
    /\ Call(WORKER, "exportConfiguration", <<>>)
    /\ UNCHANGED <<world, tool, args, config, fbuf, stdout, exitCode, err,
                   result, rep, nRecv, driver>>

\* ExportCall with the output file opened before the call
ExportCallOpenFirst ==
    /\ tool = "export" /\ pc = "constructed"
    /\ Call(WORKER, "exportConfiguration", <<>>)
    /\ fs' = IF Argc # 1 /\ args[1] \in writable
             THEN [fs EXCEPT ![args[1]] = File(<<>>)]
             ELSE fs
    /\ UNCHANGED <<workerCfg, writable, tool, args, config, fbuf, stdout,
                   exitCode, err, result, rep, nRecv, driver>>

\* config = client.worker('sysconfig').exportConfiguration(): the call
ExportCall ==
    /\ tool = "export" /\ pc = "constructed"
    /\ Call(WORKER, "exportConfiguration", <<>>)
    /\ UNCHANGED <<world, tool, args, config, fbuf, stdout, exitCode, err,
                   result, rep, nRecv, driver>>

\* config = ...: the call returns the reply's payload
ExportReturn ==
    /\ tool = "export"
    /\ Receive
    /\ Head(rep).status = "ok"
    /\ result' = "ok"
    /\ config' = Head(rep).payload
    /\ pc' = "returned"
    /\ UNCHANGED <<world, tool, args, fbuf, stdout, exitCode, err, req,
                   nSent, driver>>

\* if len(sys.argv) == 1: print(config)
ExportPrint ==
    /\ tool = "export" /\ pc = "returned"
    /\ Argc = 1
    /\ stdout' = stdout \o PrintLine(config)
    /\ pc' = "finished"
    /\ UNCHANGED <<world, tool, args, cstate, config, fbuf, exitCode, err,
                   result, net, nSent, nRecv, driver>>

\* ExportOpen with the file opened 'a': what the file holds is kept
ExportOpenAppend ==
    /\ tool = "export" /\ pc = "returned"
    /\ Argc # 1
    /\ IF args[1] \in writable
       THEN /\ fs' = [fs EXCEPT ![args[1]] = File(@.data)]
            /\ pc' = "opened"
            /\ UNCHANGED err
       ELSE /\ Raise("IOError")
            /\ UNCHANGED fs
    /\ UNCHANGED <<workerCfg, writable, tool, args, cstate, config, fbuf,
                   stdout, exitCode, result, net, nSent, nRecv, driver>>

\* else: f = open(sys.argv[1], 'w')
ExportOpen ==
    /\ tool = "export" /\ pc = "returned"
    /\ Argc # 1
    /\ IF args[1] \in writable
       THEN /\ fs' = [fs EXCEPT ![args[1]] = File(<<>>)]
            /\ pc' = "opened"
            /\ UNCHANGED err
       ELSE /\ Raise("IOError")
            /\ UNCHANGED fs
    /\ UNCHANGED <<workerCfg, writable, tool, args, cstate, config, fbuf,
                   stdout, exitCode, result, net, nSent, nRecv, driver>>

\* f.write(config)
ExportWrite ==
    /\ tool = "export" /\ pc = "opened"
    /\ fbuf' = fbuf \o config
    /\ pc' = "written"
    /\ UNCHANGED <<world, tool, args, cstate, config, stdout, exitCode, err,
                   result, net, nSent, nRecv, driver>>

\* f.close()
ExportClose ==
    /\ tool = "export" /\ pc = "written"
    /\ fs' = [fs EXCEPT ![args[1]] = File(@.data \o fbuf)]
    /\ fbuf' = <<>>
    /\ pc' = "finished"
    /\ UNCHANGED <<workerCfg, writable, tool, args, cstate, config, stdout,
                   exitCode, err, result, net, nSent, nRecv, driver>>

\* The end of the script
ExportExit ==
    /\ tool = "export" /\ pc = "finished"
    /\ Exit(0)
    /\ UNCHANGED <<world, tool, args, config, fbuf, stdout, err, result,
                   nSent, nRecv, driver>>

\* ExportFail with a timed-out call tried again
ExportFailRetry ==
    /\ tool = "export" /\ pc = "raised"
    /\ IF err = "TimeoutError"
       THEN /\ pc' = "constructed" /\ err' = "none"
            /\ UNCHANGED <<world, tool, args, cstate, config, fbuf, stdout,
                           exitCode, result, net, nSent, nRecv, driver>>
       ELSE /\ Exit(1)
            /\ UNCHANGED <<world, tool, args, config, fbuf, stdout, err,
                           result, nSent, nRecv, driver>>

\* No statement of the script handles an exception
ExportFail ==
    /\ tool = "export" /\ pc = "raised"
    /\ Exit(1)
    /\ UNCHANGED <<world, tool, args, config, fbuf, stdout, err, result,
                   nSent, nRecv, driver>>

----------------------------------------------------------------------------
(* import-config.py *)

\* client = nef.NEFClient('tcp://127.0.0.1:5557')
ImportConstruct ==
    /\ tool = "import" /\ pc = "start"
    /\ Connect(ENDPOINT)
    /\ UNCHANGED <<world, tool, args, config, fbuf, stdout, exitCode, err,
                   result, net, nSent, nRecv, driver>>

\* if len(sys.argv) != 2: raise "Please pass only config file ..."
ImportCheckArgs ==
    /\ tool = "import" /\ pc = "constructed"
    /\ IF Argc # 2
       THEN Raise("UsageError")
       ELSE pc' = "checked" /\ UNCHANGED err
    /\ UNCHANGED <<world, tool, args, cstate, config, fbuf, stdout, exitCode,
                   result, net, nSent, nRecv, driver>>

\* f = open(sys.argv[1], 'r')
ImportOpen ==
    /\ tool = "import" /\ pc = "checked"
    /\ IF fs[args[1]].exists
       THEN pc' = "opened" /\ UNCHANGED err
       ELSE Raise("IOError")
    /\ UNCHANGED <<world, tool, args, cstate, config, fbuf, stdout, exitCode,
                   result, net, nSent, nRecv, driver>>

\* The first line of a text, its line feed included
FirstLine(d) ==
    IF \E i \in 1..Len(d) : d[i] = NL
    THEN SubSeq(d, 1, CHOOSE i \in 1..Len(d) :
                        d[i] = NL /\ \A j \in 1..(i - 1) : d[j] # NL)
    ELSE d

\* ImportRead with f.readline() for f.read()
ImportReadLine ==
    /\ tool = "import" /\ pc = "opened"
    /\ config' = FirstLine(fs[args[1]].data)
    /\ pc' = "read"
    /\ UNCHANGED <<world, tool, args, cstate, fbuf, stdout, exitCode, err,
                   result, net, nSent, nRecv, driver>>

\* config = f.read()
ImportRead ==
    /\ tool = "import" /\ pc = "opened"
    /\ config' = ReadAll(fs[args[1]].data)
    /\ pc' = "read"
    /\ UNCHANGED <<world, tool, args, cstate, fbuf, stdout, exitCode, err,
                   result, net, nSent, nRecv, driver>>

\* f.close()
ImportClose ==
    /\ tool = "import" /\ pc = "read"
    /\ pc' = "closed"
    /\ UNCHANGED <<world, tool, args, cstate, config, fbuf, stdout, exitCode,
                   err, result, net, nSent, nRecv, driver>>

\* ImportCall with the request sent a second time
ImportCallTwice ==
    /\ tool = "import" /\ pc = "closed"
    /\ cstate' = "Awaiting"
    /\ LET m == MethodCall(WORKER, "importConfiguration",
                           << <<"configuration", config>> >>)
       IN  req' = req \o <<m, m>>
    /\ nSent' = nSent + 2
    /\ pc' = "calling"
    /\ UNCHANGED <<world, tool, args, config, fbuf, stdout, exitCode, err,
                   result, rep, nRecv, driver>>

\* client.worker('sysconfig').importConfiguration(configuration=config)
ImportCall ==
    /\ tool = "import" /\ pc = "closed"
    /\ Call(WORKER, "importConfiguration", << <<"configuration", config>> >>)
    /\ UNCHANGED <<world, tool, args, config, fbuf, stdout, exitCode, err,
                   result, rep, nRecv, driver>>

\* The call returns; its value is not used
ImportReturn ==
    /\ tool = "import"
    /\ Receive
    /\ Head(rep).status = "ok"
    /\ result' = "ok"
    /\ pc' = "finished"
    /\ UNCHANGED <<world, tool, args, config, fbuf, stdout, exitCode, err,
                   req, nSent, driver>>

\* The end of the script
ImportExit ==
    /\ tool = "import" /\ pc = "finished"
    /\ Exit(0)
    /\ UNCHANGED <<world, tool, args, config, fbuf, stdout, err, result,
                   nSent, nRecv, driver>>

\* ImportFail with the exception caught and dropped
ImportFailSwallowed ==
    /\ tool = "import" /\ pc = "raised"
    /\ Exit(0)
    /\ UNCHANGED <<world, tool, args, config, fbuf, stdout, err, result,
                   nSent, nRecv, driver>>

\* No statement of the script handles an exception
ImportFail ==
    /\ tool = "import" /\ pc = "raised"
    /\ Exit(1)
    /\ UNCHANGED <<world, tool, args, config, fbuf, stdout, err, result,
                   nSent, nRecv, driver>>

----------------------------------------------------------------------------
(* Specifications *)

Step ==
    \/ ConnectOk \/ ConnectFail
    \/ WorkerHandle \/ WorkerError
    \/ CallRemoteError \/ CallTimeout \/ TransportDrop
    \/ ExportConstruct \/ ExportCall \/ ExportReturn
    \/ ExportPrint \/ ExportOpen \/ ExportWrite \/ ExportClose
    \/ ExportExit \/ ExportFail
    \/ ImportConstruct \/ ImportCheckArgs \/ ImportOpen \/ ImportRead
    \/ ImportClose \/ ImportCall \/ ImportReturn
    \/ ImportExit \/ ImportFail

Next == Launch \/ Step

Spec == Init /\ [][Next]_vars

----------------------------------------------------------------------------
(* The round-trip session: export to a file, import that file, export *)

InitRoundTrip ==
    /\ InitState
    /\ T = workerCfg

SessionLaunch ==
    /\ pc = "exited"
    /\ \/ /\ step = 0
          /\ \E p \in Paths : Start("export", <<p>>)
       \/ /\ step = 1 /\ exitCode = 0
          /\ Start("import", args)
       \/ /\ step = 2 /\ exitCode = 0
          /\ \E a \in {<<>>, args} : Start("export", a)
    /\ step' = step + 1
    /\ UNCHANGED T

\* What a finished export run has produced
Produced == IF args = <<>> THEN stdout ELSE fs[args[1]].data

NextRoundTrip == SessionLaunch \/ Step

RoundTripSpec == InitRoundTrip /\ [][NextRoundTrip]_vars

----------------------------------------------------------------------------
(* The tools under the schedule the client and the interpreter give: a     *)
(* blocked call ends with a reply or a timeout, and a raised exception     *)
(* ends the process.                                                       *)

LiveSpec ==
    /\ Spec
    /\ WF_vars(CallTimeout) /\ WF_vars(CallRemoteError)
    /\ WF_vars(ExportReturn) /\ WF_vars(ImportReturn)
    /\ WF_vars(ExportFail) /\ WF_vars(ImportFail)

----------------------------------------------------------------------------
(* Properties *)

Running == tool # "none"
Exited == Running /\ pc = "exited"

\* C1: an import run with a wrong argument count fails with the usage error
\* and, up to that failure, its client has not been created or opened and it
\* has sent no request.
UsageErrorBeforeConnect ==
    (tool = "import" /\ Argc # 2) =>
        /\ cstate = "Disconnected"
        /\ nSent = 0
        /\ pc = "exited" => err = "UsageError"

\* C2: export to a file, import of that file, export again: what the last
\* export produces is exactly the text T the worker held at the start, and
\* the worker holds T after the import.
RoundTrip ==
    /\ (step = 2 /\ Exited /\ exitCode = 0) => workerCfg = T
    /\ (step = 3 /\ Exited /\ exitCode = 0) => (Produced = T /\ workerCfg = T)

\* The round trip when the last export writes to a file
RoundTripViaFile ==
    /\ (step = 2 /\ Exited /\ exitCode = 0) => workerCfg = T
    /\ (step = 3 /\ Exited /\ exitCode = 0 /\ args # <<>>) =>
           (fs[args[1]] = File(T) /\ workerCfg = T)

\* C3, as stated: every call that has ended issued exactly one request and
\* consumed exactly one reply, and no run sends a request a second time.
SingleRoundTripAlways ==
    /\ nSent <= 1
    /\ result # "none" => (nSent = 1 /\ nRecv = 1)

\* C3, amended: a run sends at most one request and never re-sends it: a
\* call that ended with a reply (a payload or a remote error) sent one
\* request and consumed one reply, a call that ended with a timeout or a
\* transport failure sent one request and consumed no reply, and a run that
\* exits 0 made one round trip.
SingleRoundTrip ==
    /\ nSent <= 1 /\ nRecv <= nSent
    /\ Len(req) + Len(rep) <= 1
    /\ result \in {"ok", "error"} => (nSent = 1 /\ nRecv = 1)
    /\ result \in {"timeout", "transport"} => (nSent = 1 /\ nRecv = 0)
    /\ (Exited /\ exitCode = 0) => (nSent = 1 /\ nRecv = 1)

SingleRoundTripWitness ==
    Exited /\ result = "error" /\ nSent = 1 /\ nRecv = 1

\* C4: an export run with no arguments that got payload P has written
\* exactly P to standard output and exits 0, and it changes no file.
ExportToStdout ==
    /\ [](tool = "export" /\ args = <<>> /\ result = "ok" /\ pc = "exited" =>
            (stdout = config /\ exitCode = 0))
    /\ [][tool = "export" /\ args = <<>> => fs' = fs]_vars

\* C5, as stated: an export run with a path p that got payload P leaves p
\* holding exactly P, writes nothing to standard output and exits 0.
ExportToFileAlways ==
    (tool = "export" /\ args # <<>> /\ result = "ok" /\ pc = "exited") =>
        (fs[args[1]] = File(config) /\ stdout = <<>> /\ exitCode = 0)

\* C5, amended: an export run with a path p that can be opened for writing,
\* having got payload P, leaves p holding exactly P, whatever p held before,
\* writes nothing to standard output and exits 0.
ExportToFile ==
    (tool = "export" /\ args # <<>> /\ result = "ok" /\ pc = "exited"
        /\ args[1] \in writable) =>
        (fs[args[1]] = File(config) /\ stdout = <<>> /\ exitCode = 0)

ExportToFileWitness ==
    /\ tool = "export" /\ args # <<>> /\ pc = "exited" /\ exitCode = 0
    /\ config # <<>> /\ fs[args[1]] = File(config)

\* C6: the request of an import run is importConfiguration on worker
\* sysconfig with the one named argument configuration, whose value is the
\* whole content of the file the run was given; the run was given one
\* argument, it leaves the file as it is, and on acknowledgement it exits 0.
ImportRequestContent ==
    /\ [](tool = "import" /\ req # <<>> =>
            /\ Argc = 2 /\ fs[args[1]].exists
            /\ Head(req) = [worker |-> "sysconfig",
                            method |-> "importConfiguration",
                            args |-> << <<"configuration", fs[args[1]].data>> >>])
    /\ [](tool = "import" /\ result = "ok" /\ pc = "exited" => exitCode = 0)
    /\ [][tool = "import" => fs' = fs]_vars

ImportRequestWitness ==
    /\ tool = "import" /\ pc = "exited" /\ exitCode = 0
    /\ fs[args[1]].data # <<>> /\ workerCfg = fs[args[1]].data

\* C7: an import run whose call is answered with a remote error ends with
\* RemoteError and a nonzero status, having written nothing to standard
\* output; no import run changes a file; and a step of the worker that
\* answers with an error leaves the worker's configuration as it was.
RemoteErrorOnImport ==
    /\ [](tool = "import" /\ result = "error" =>
            /\ err = "RemoteError" /\ stdout = <<>> /\ fbuf = <<>>
            /\ pc = "exited" => exitCode = 1)
    /\ [][tool = "import" => fs' = fs]_vars
    /\ [][(tool = "import" /\ workerCfg' # workerCfg) =>
            /\ req' = <<>>
            /\ result' # "error"
            /\ rep' # <<>> => Head(rep').status = "ok"]_vars

RemoteErrorOnImportWitness ==
    tool = "import" /\ pc = "exited" /\ result = "error" /\ exitCode = 1

\* The order in which a client enters its states
StateOrder ==
    { <<"Disconnected", "Connecting">>,
      <<"Connecting", "ConnectedIdle">>, <<"Connecting", "Closed">>,
      <<"ConnectedIdle", "Awaiting">>, <<"Awaiting", "ConnectedIdle">>,
      <<"ConnectedIdle", "Closed">>, <<"Awaiting", "Closed">> }

\* C8: a client has at most one call awaiting a reply, a call is issued only
\* from Connected (idle), and within a process the client's state changes
\* only along Disconnected, Connecting, Connected (idle and awaiting), Closed.
SingleOutstandingCall ==
    /\ [](/\ Len(req) + Len(rep) <= 1
          /\ cstate = "Awaiting" => (pc = "calling" /\ nSent - nRecv = 1)
          /\ nSent - nRecv <= 1)
    /\ [][nSent' > nSent => (cstate = "ConnectedIdle" /\ cstate' = "Awaiting")]_vars
    /\ [][(pc # "exited" /\ cstate' # cstate) => <<cstate, cstate'>> \in StateOrder]_vars

SingleOutstandingCallWitness ==
    cstate = "Awaiting" /\ nSent = 1 /\ req = <<>> /\ rep # <<>>

\* C9: a call that gets no reply within the bound ends with TimeoutError,
\* having sent its request once; the process then exits nonzero with the
\* connection closed; and no call stays blocked forever.
TimeoutBoundary ==
    /\ [](result = "timeout" =>
            /\ err = "TimeoutError" /\ nSent = 1 /\ nRecv = 0
            /\ pc \in {"raised", "exited"}
            /\ pc = "exited" => (cstate = "Closed" /\ exitCode = 1))
    /\ (cstate = "Awaiting") ~> (cstate # "Awaiting")
    /\ (result = "timeout") ~> (cstate = "Closed")

TimeoutBoundaryWitness ==
    result = "timeout" /\ pc = "exited" /\ cstate = "Closed"

\* C10: an export run changes a file or writes to standard output only after
\* its call has returned a payload; a run whose connecting or call failed
\* exits nonzero having written nothing.
ExportOpensAfterReply ==
    /\ [][(tool = "export" /\ pc # "exited" /\ (fs' # fs \/ stdout' # stdout)) =>
            (result = "ok" /\ pc \in {"returned", "written"})]_vars
    /\ [](tool = "export" /\ result # "ok" => (stdout = <<>> /\ fbuf = <<>>))
    /\ [](tool = "export" /\ pc = "exited" /\
          err \in {"ConnectionError", "RemoteError", "TimeoutError", "TransportError"} =>
            exitCode = 1)

ExportOpensAfterReplyWitness ==
    /\ tool = "export" /\ pc = "exited" /\ err = "RemoteError"
    /\ args # <<>> /\ fs[args[1]].exists /\ fs[args[1]].data # <<>>
====
